---------------------------- MODULE Spec2Model ----------------------------
(***************************************************************************)
(* A model of fastlane/frame_screenshots.py: the batch job that composes   *)
(* a coloured background and a localized title onto App Store screenshots. *)
(*                                                                         *)
(* Strings of the program (paths, file names, language codes, keys) are    *)
(* sequences of one-character strings, so that `in`, split, replace, lower *)
(* and pathlib's name/stem are computed character by character as Python   *)
(* computes them.  A title is the sequence of its Unicode code points; the *)
(* empty title '' is << >>.                                                *)
(*                                                                         *)
(* Three specifications share the variables:                               *)
(*   SpecTitle  one call of get_title_for_screenshot(filename, language)   *)
(*   SpecFrame  one call of frame_screenshot(input_path, output_path,      *)
(*              language) on a file of a given content                     *)
(*   Spec       runs of process_screenshots(screenshots_dir) over a        *)
(*              directory tree                                             *)
(***************************************************************************)
EXTENDS Integers, Sequences, FiniteSets, Bags, TLC

VARIABLES
    pc,          \* position of the modelled call
    filename,    \* get_title_for_screenshot: argument filename
    language,    \* get_title_for_screenshot / frame_screenshot: argument language
    title,       \* get_title_for_screenshot: returned title
    input_path,  \* frame_screenshot: argument input_path
    output_path, \* frame_screenshot: argument output_path
    result,      \* frame_screenshot: what the call did (see NoResult)
    root,        \* process_screenshots: what screenshots_dir names
    entries,     \* process_screenshots: entries of screenshots_dir, name -> "dir" | "file"
    files,       \* the file system under the language directories, path -> content
    lang_todo,   \* entries iterdir() has still to yield
    lang_dir,    \* the language directory of the outer loop (<< >>: none)
    png_todo,    \* names glob('*.png') has still to yield in lang_dir
    processed,   \* counter processed
    skipped,     \* counter skipped
    ret,         \* what process_screenshots did: "none", "True", "False", "raised"
    run,         \* number of the run of process_screenshots (history)
    calls,       \* the bag of the calls of frame_screenshot made in this run (history)
    written      \* <<input_path, output_path>> of every call that saved, in any run (history)

vars == <<pc, filename, language, title, input_path, output_path, result, root,
          entries, files, lang_todo, lang_dir, png_todo, processed, skipped,
          ret, run, calls, written>>

---------------------------------------------------------------------------
(* Python's str operations, on sequences of characters.                    *)

\* `sub in s`
Contains(sub, s) ==
    \E i \in 1..(Len(s) - Len(sub) + 1) : SubSeq(s, i, i + Len(sub) - 1) = sub

\* s.endswith(suffix)
EndsWith(s, suffix) ==
    /\ Len(suffix) <= Len(s)
    /\ SubSeq(s, Len(s) - Len(suffix) + 1, Len(s)) = suffix

\* s.rfind(c) for a character c: the 0-based index of its last occurrence, -1 if none
RFind(s, c) ==
    IF \E i \in 1..Len(s) : s[i] = c
    THEN (CHOOSE i \in 1..Len(s) : s[i] = c /\ \A j \in (i+1)..Len(s) : s[j] # c) - 1
    ELSE -1

\* s.replace(old, new) for a non-empty old: left to right, occurrences not overlapping,
\* the replacement not scanned again
RECURSIVE Replace(_, _, _)
Replace(s, old, new) ==
    IF Len(s) < Len(old) THEN s
    ELSE IF SubSeq(s, 1, Len(old)) = old
         THEN new \o Replace(SubSeq(s, Len(old) + 1, Len(s)), old, new)
         ELSE <<Head(s)>> \o Replace(Tail(s), old, new)

\* s.split(sep) for a character sep: the list of the parts, never empty
RECURSIVE Split(_, _)
Split(s, sep) ==
    IF \A i \in 1..Len(s) : s[i] # sep THEN <<s>>
    ELSE LET i == CHOOSE k \in 1..Len(s) : s[k] = sep /\ \A j \in 1..(k-1) : s[j] # sep
         IN  <<SubSeq(s, 1, i - 1)>> \o Split(SubSeq(s, i + 1, Len(s)), sep)

UpperCase == <<"A", "B", "C", "D", "E", "F", "G", "H", "I", "J", "K", "L", "M",
               "N", "O", "P", "Q", "R", "S", "T", "U", "V", "W", "X", "Y", "Z">>
LowerCase == <<"a", "b", "c", "d", "e", "f", "g", "h", "i", "j", "k", "l", "m",
               "n", "o", "p", "q", "r", "s", "t", "u", "v", "w", "x", "y", "z">>

\* s.lower(), on ASCII
Lower(s) ==
    [i \in 1..Len(s) |->
        IF \E k \in 1..26 : UpperCase[k] = s[i]
        THEN LowerCase[CHOOSE k \in 1..26 : UpperCase[k] = s[i]]
        ELSE s[i]]

\* s.lstrip(c) for a character c
RECURSIVE LStrip(_, _)
LStrip(s, c) == IF s # << >> /\ Head(s) = c THEN LStrip(Tail(s), c) ELSE s

\* int(s, 16) for a string of hexadecimal digits, of either case
HexDigits == <<"0", "1", "2", "3", "4", "5", "6", "7", "8", "9",
               "A", "B", "C", "D", "E", "F">>
HexValue(c) == (CHOOSE k \in 1..16 : HexDigits[k] = c \/ Lower(HexDigits)[k] = c) - 1
RECURSIVE HexInt(_)
HexInt(s) == IF s = << >> THEN 0
             ELSE 16 * HexInt(SubSeq(s, 1, Len(s) - 1)) + HexValue(s[Len(s)])

\* d.get(k, default) of a dict d
DictGet(d, k, default) == IF k \in DOMAIN d THEN d[k] ELSE default

(* pathlib, on the paths the program builds: a path is its components      *)
(* joined by "/", none of them empty, "." or "..".                         *)

\* PurePath(p).name: the last component
PathName(p) == SubSeq(p, RFind(p, "/") + 2, Len(p))

\* PurePath.stem of a name: the name without its last suffix; a leading or a
\* trailing dot starts no suffix
Stem(name) ==
    LET i == RFind(name, ".")
    IN  IF 0 < i /\ i < Len(name) - 1 THEN SubSeq(name, 1, i) ELSE name

\* d / name
Join(d, name) == d \o <<"/">> \o name

---------------------------------------------------------------------------
(* Configuration (lines 13-99).                                            *)

s_Dark == <<"_", "D", "a", "r", "k">>
s_framed == <<"_", "f", "r", "a", "m", "e", "d">>
s_background == <<"b", "a", "c", "k", "g", "r", "o", "u", "n", "d">>
s_png == <<".", "p", "n", "g">>
s_framed_png == s_framed \o s_png

BACKGROUND_COLORS ==
    [light |-> <<"#", "0", "0", "7", "A", "F", "F">>,
     dark  |-> <<"#", "1", "C", "1", "C", "1", "E">>]

PADDING == 100
TITLE_PADDING == 80
FONT_SIZE == 72

\* The 13 screenshot keys of the title table (lines 25-37), as character sequences.
Key_01_NearbyTab == <<"0", "1", "_", "N", "e", "a", "r", "b", "y", "T", "a", "b">>
Key_02_NearbyTabGrid == <<"0", "2", "_", "N", "e", "a", "r", "b", "y", "T", "a", "b", "G", "r", "i", "d">>
Key_03_ConnectedTab == <<"0", "3", "_", "C", "o", "n", "n", "e", "c", "t", "e", "d", "T", "a", "b">>
Key_04_ConnectionView == <<"0", "4", "_", "C", "o", "n", "n", "e", "c", "t", "i", "o", "n", "V", "i", "e", "w">>
Key_05_ChatView == <<"0", "5", "_", "C", "h", "a", "t", "V", "i", "e", "w">>
Key_06_VoiceCallView == <<"0", "6", "_", "V", "o", "i", "c", "e", "C", "a", "l", "l", "V", "i", "e", "w">>
Key_07_LibraryTab == <<"0", "7", "_", "L", "i", "b", "r", "a", "r", "y", "T", "a", "b">>
Key_08_Settings == <<"0", "8", "_", "S", "e", "t", "t", "i", "n", "g", "s">>
Key_09_QuickConnect == <<"0", "9", "_", "Q", "u", "i", "c", "k", "C", "o", "n", "n", "e", "c", "t">>
Key_10_FileTransfer == <<"1", "0", "_", "F", "i", "l", "e", "T", "r", "a", "n", "s", "f", "e", "r">>
Key_11_TransferHistory == <<"1", "1", "_", "T", "r", "a", "n", "s", "f", "e", "r", "H", "i", "s", "t", "o", "r", "y">>
Key_12_UserProfile == <<"1", "2", "_", "U", "s", "e", "r", "P", "r", "o", "f", "i", "l", "e">>
Key_13_GroupDetail == <<"1", "3", "_", "G", "r", "o", "u", "p", "D", "e", "t", "a", "i", "l">>

\* The language codes of the title table (lines 24, 39, 54, 69, 84).
Lang_en_US == <<"e", "n", "-", "U", "S">>
Lang_zh_Hant == <<"z", "h", "-", "H", "a", "n", "t">>
Lang_zh_Hans == <<"z", "h", "-", "H", "a", "n", "s">>
Lang_ja == <<"j", "a">>
Lang_ko == <<"k", "o">>

\* TITLES['en-US']: each title is the sequence of its Unicode code points.
TITLES_en_US ==
       (Key_01_NearbyTab :> <<68, 105, 115, 99, 111, 118, 101, 114, 32, 78, 101, 97, 114, 98, 121, 32, 68, 101, 118, 105, 99, 101, 115>>)  \* Discover Nearby Devices
    @@ (Key_02_NearbyTabGrid :> <<71, 114, 105, 100, 32, 86, 105, 101, 119>>)  \* Grid View
    @@ (Key_03_ConnectedTab :> <<65, 99, 116, 105, 118, 101, 32, 67, 111, 110, 110, 101, 99, 116, 105, 111, 110, 115>>)  \* Active Connections
    @@ (Key_04_ConnectionView :> <<67, 111, 110, 110, 101, 99, 116, 105, 111, 110, 32, 68, 101, 116, 97, 105, 108, 115>>)  \* Connection Details
    @@ (Key_05_ChatView :> <<83, 101, 99, 117, 114, 101, 32, 67, 104, 97, 116>>)  \* Secure Chat
    @@ (Key_06_VoiceCallView :> <<86, 111, 105, 99, 101, 32, 67, 97, 108, 108>>)  \* Voice Call
    @@ (Key_07_LibraryTab :> <<68, 101, 118, 105, 99, 101, 32, 76, 105, 98, 114, 97, 114, 121>>)  \* Device Library
    @@ (Key_08_Settings :> <<83, 101, 116, 116, 105, 110, 103, 115>>)  \* Settings
    @@ (Key_09_QuickConnect :> <<81, 117, 105, 99, 107, 32, 67, 111, 110, 110, 101, 99, 116>>)  \* Quick Connect
    @@ (Key_10_FileTransfer :> <<70, 105, 108, 101, 32, 84, 114, 97, 110, 115, 102, 101, 114>>)  \* File Transfer
    @@ (Key_11_TransferHistory :> <<84, 114, 97, 110, 115, 102, 101, 114, 32, 72, 105, 115, 116, 111, 114, 121>>)  \* Transfer History
    @@ (Key_12_UserProfile :> <<85, 115, 101, 114, 32, 80, 114, 111, 102, 105, 108, 101>>)  \* User Profile
    @@ (Key_13_GroupDetail :> <<71, 114, 111, 117, 112, 32, 68, 101, 116, 97, 105, 108, 115>>)  \* Group Details

\* TITLES['zh-Hant']: each title is the sequence of its Unicode code points.
TITLES_zh_Hant ==
       (Key_01_NearbyTab :> <<30332, 29694, 38468, 36817, 35037, 32622>>)
    @@ (Key_02_NearbyTabGrid :> <<32178, 26684, 27298, 35222>>)
    @@ (Key_03_ConnectedTab :> <<24050, 36899, 25509, 35037, 32622>>)
    @@ (Key_04_ConnectionView :> <<36899, 25509, 35443, 24773>>)
    @@ (Key_05_ChatView :> <<23433, 20840, 32842, 22825>>)
    @@ (Key_06_VoiceCallView :> <<35486, 38899, 36890, 35441>>)
    @@ (Key_07_LibraryTab :> <<35037, 32622, 36039, 26009, 24235>>)
    @@ (Key_08_Settings :> <<35373, 23450>>)
    @@ (Key_09_QuickConnect :> <<24555, 36895, 36899, 25509>>)
    @@ (Key_10_FileTransfer :> <<27284, 26696, 20659, 36664>>)
    @@ (Key_11_TransferHistory :> <<20659, 36664, 32000, 37636>>)
    @@ (Key_12_UserProfile :> <<20351, 29992, 32773, 36039, 26009>>)
    @@ (Key_13_GroupDetail :> <<32676, 32068, 35443, 24773>>)

\* TITLES['zh-Hans']: each title is the sequence of its Unicode code points.
TITLES_zh_Hans ==
       (Key_01_NearbyTab :> <<21457, 29616, 38468, 36817, 35774, 22791>>)
    @@ (Key_02_NearbyTabGrid :> <<32593, 26684, 35270, 22270>>)
    @@ (Key_03_ConnectedTab :> <<24050, 36830, 25509, 35774, 22791>>)
    @@ (Key_04_ConnectionView :> <<36830, 25509, 35814, 24773>>)
    @@ (Key_05_ChatView :> <<23433, 20840, 32842, 22825>>)
    @@ (Key_06_VoiceCallView :> <<35821, 38899, 36890, 35805>>)
    @@ (Key_07_LibraryTab :> <<35774, 22791, 24211>>)
    @@ (Key_08_Settings :> <<35774, 32622>>)
    @@ (Key_09_QuickConnect :> <<24555, 36895, 36830, 25509>>)
    @@ (Key_10_FileTransfer :> <<25991, 20214, 20256, 36755>>)
    @@ (Key_11_TransferHistory :> <<20256, 36755, 35760, 24405>>)
    @@ (Key_12_UserProfile :> <<29992, 25143, 36164, 26009>>)
    @@ (Key_13_GroupDetail :> <<32676, 32452, 35814, 24773>>)

\* TITLES['ja']: each title is the sequence of its Unicode code points.
TITLES_ja ==
       (Key_01_NearbyTab :> <<36817, 12367, 12398, 12487, 12496, 12452, 12473, 12434, 30330, 35211>>)
    @@ (Key_02_NearbyTabGrid :> <<12464, 12522, 12483, 12489, 34920, 31034>>)
    @@ (Key_03_ConnectedTab :> <<12450, 12463, 12486, 12451, 12502, 12394, 25509, 32154>>)
    @@ (Key_04_ConnectionView :> <<25509, 32154, 12398, 35443, 32048>>)
    @@ (Key_05_ChatView :> <<12475, 12461, 12517, 12450, 12481, 12515, 12483, 12488>>)
    @@ (Key_06_VoiceCallView :> <<38899, 22768, 36890, 35441>>)
    @@ (Key_07_LibraryTab :> <<12487, 12496, 12452, 12473, 12521, 12452, 12502, 12521, 12522>>)
    @@ (Key_08_Settings :> <<35373, 23450>>)
    @@ (Key_09_QuickConnect :> <<12463, 12452, 12483, 12463, 25509, 32154>>)
    @@ (Key_10_FileTransfer :> <<12501, 12449, 12452, 12523, 36578, 36865>>)
    @@ (Key_11_TransferHistory :> <<36578, 36865, 23653, 27508>>)
    @@ (Key_12_UserProfile :> <<12518, 12540, 12470, 12540, 12503, 12525, 12501, 12451, 12540, 12523>>)
    @@ (Key_13_GroupDetail :> <<12464, 12523, 12540, 12503, 35443, 32048>>)

\* TITLES['ko']: each title is the sequence of its Unicode code points.
TITLES_ko ==
       (Key_01_NearbyTab :> <<51452, 48320, 32, 44592, 44592, 32, 48156, 44204>>)
    @@ (Key_02_NearbyTabGrid :> <<44536, 47532, 46300, 32, 48372, 44592>>)
    @@ (Key_03_ConnectedTab :> <<54876, 49457, 32, 50672, 44208>>)
    @@ (Key_04_ConnectionView :> <<50672, 44208, 32, 49345, 49464>>)
    @@ (Key_05_ChatView :> <<48372, 50504, 32, 52292, 54021>>)
    @@ (Key_06_VoiceCallView :> <<51020, 49457, 32, 53685, 54868>>)
    @@ (Key_07_LibraryTab :> <<44592, 44592, 32, 46972, 51060, 48652, 47084, 47532>>)
    @@ (Key_08_Settings :> <<49444, 51221>>)
    @@ (Key_09_QuickConnect :> <<48736, 47480, 32, 50672, 44208>>)
    @@ (Key_10_FileTransfer :> <<54028, 51068, 32, 51204, 49569>>)
    @@ (Key_11_TransferHistory :> <<51204, 49569, 32, 44592, 47197>>)
    @@ (Key_12_UserProfile :> <<49324, 50857, 51088, 32, 54532, 47196, 54596>>)
    @@ (Key_13_GroupDetail :> <<44536, 47353, 32, 49345, 49464>>)

TITLES ==
       (Lang_en_US :> TITLES_en_US)
    @@ (Lang_zh_Hant :> TITLES_zh_Hant)
    @@ (Lang_zh_Hans :> TITLES_zh_Hans)
    @@ (Lang_ja :> TITLES_ja)
    @@ (Lang_ko :> TITLES_ko)

---------------------------------------------------------------------------
(* hex_to_rgb and get_title_for_screenshot (lines 102-126).                *)

\* hex_to_rgb(hex_color) with the leading '#' stripped, the three two-digit pairs
hex_to_rgb(hex_color) ==
    LET h == LStrip(hex_color, "#")
    IN  <<HexInt(SubSeq(h, 1, 2)), HexInt(SubSeq(h, 3, 4)), HexInt(SubSeq(h, 5, 6))>>

\* Lines 112-122 with the fall-back to the key of the light variant left out
TitleKeyKeepingDark(name) ==
    LET base  == Stem(PathName(name))
        parts == Split(base, "-")
    IN  IF Len(parts) >= 2 THEN parts[Len(parts)] ELSE base

\* Lines 112-122: the screenshot key of a file name
TitleKey(name) ==
    LET base  == Stem(PathName(name))
        parts == Split(base, "-")
        key   == IF Len(parts) >= 2 THEN parts[Len(parts)] ELSE base
    IN  Replace(key, s_Dark, << >>)

\* Line 125 without its fall-back: an unknown language has no titles
LangTitlesNoFallback(lang) == DictGet(TITLES, lang, << >>)

\* Line 125: the titles of a language, those of en-US for an unknown one
LangTitles(lang) == DictGet(TITLES, lang, TITLES[Lang_en_US])

\* Line 126 with the key itself as the default
LookupTitleDefaultKey(lang_titles, key) == DictGet(lang_titles, key, key)

\* Line 126: the title of a key, '' for an unknown one
LookupTitle(lang_titles, key) == DictGet(lang_titles, key, << >>)

get_title_for_screenshot(name, lang) == LookupTitle(LangTitles(lang), TitleKey(name))

---------------------------------------------------------------------------
(* The file system: a function from paths to what lies there.  A file is   *)
(* a PNG image (a raw screenshot, or a framed one with the background, the *)
(* title and the place of the pasted screenshot it was composed with), a   *)
(* file Pillow cannot read as an image, or a directory.                    *)

Screenshot(w, h) ==
    [kind |-> "image", width |-> w, height |-> h, bg |-> << >>, title |-> << >>,
     paste |-> << >>, from |-> << >>]
Corrupt ==
    [kind |-> "corrupt", width |-> 0, height |-> 0, bg |-> << >>, title |-> << >>,
     paste |-> << >>, from |-> << >>]
Directory ==
    [kind |-> "dir", width |-> 0, height |-> 0, bg |-> << >>, title |-> << >>,
     paste |-> << >>, from |-> << >>]

\* PurePath.parent of a path with at least two components
Parent(p) == SubSeq(p, 1, RFind(p, "/"))

\* The names of the entries of directory d
Listing(fs, d) == {PathName(p) : p \in {q \in DOMAIN fs : Parent(q) = d}}

---------------------------------------------------------------------------
(* frame_screenshot (lines 150-191).                                       *)

\* Line 153: is_dark = '_Dark' in input_path
IsDark(path) == Contains(s_Dark, path)

\* Line 154: bg_color
BgColor(is_dark) ==
    hex_to_rgb(IF is_dark THEN BACKGROUND_COLORS.dark ELSE BACKGROUND_COLORS.light)

\* Line 164 with the padding added on one side only
OutputWidthOneSide(ss_width) == ss_width + PADDING

\* Line 164: output_width
OutputWidth(ss_width) == ss_width + (PADDING * 2)

\* Line 165 with the band reserved whether or not there is a title
TitleHeightAlways(t) == TITLE_PADDING + FONT_SIZE + TITLE_PADDING

\* Line 165: title_height; an empty title is false
TitleHeight(t) == IF t # << >> THEN TITLE_PADDING + FONT_SIZE + TITLE_PADDING ELSE 0

\* Line 166: output_height
OutputHeight(ss_height, title_height) == ss_height + title_height + PADDING

\* What one call did: status is "none" (no call yet), "raised" or "returned"; at is
\* the statement that raised ("open", "save").  The fields hold the locals the call
\* had computed when it ended (0 and << >> for those it had not).
NoResult ==
    [status |-> "none", at |-> "", is_dark |-> FALSE, bg_color |-> << >>,
     ss_width |-> 0, ss_height |-> 0, title |-> << >>, output_width |-> 0,
     title_height |-> 0, output_height |-> 0, screenshot_x |-> 0, screenshot_y |-> 0]

\* frame_screenshot(input_path, output_path, language) on file system fs: the file
\* system it leaves, and what it did.  Image.open raises (an OSError) unless
\* input_path is an image; save raises (an OSError) when output_path is a directory.
\* The title drawn at (text_x, TITLE_PADDING) is recorded as the title of the output;
\* text_x depends on the font's metrics and is not modelled.
frame_screenshot(fs, in_path, out_path, lang) ==
    LET is_dark       == IsDark(in_path)
        bg_color      == BgColor(is_dark)
        opened        == in_path \in DOMAIN fs /\ fs[in_path].kind = "image"
        ss_width      == fs[in_path].width
        ss_height     == fs[in_path].height
        t             == get_title_for_screenshot(in_path, lang)
        output_width  == OutputWidth(ss_width)
        title_height  == TitleHeight(t)
        output_height == OutputHeight(ss_height, title_height)
        screenshot_x  == PADDING
        screenshot_y  == title_height
        saved         == ~(out_path \in DOMAIN fs /\ fs[out_path].kind = "dir")
        output        == [kind |-> "image", width |-> output_width,
                          height |-> output_height, bg |-> bg_color, title |-> t,
                          paste |-> <<screenshot_x, screenshot_y>>, from |-> in_path]
        locals        == [NoResult EXCEPT !.is_dark = is_dark, !.bg_color = bg_color,
                             !.ss_width = ss_width, !.ss_height = ss_height,
                             !.title = t, !.output_width = output_width,
                             !.title_height = title_height,
                             !.output_height = output_height,
                             !.screenshot_x = screenshot_x,
                             !.screenshot_y = screenshot_y]
    IN  IF ~opened
        THEN [fs |-> fs,
              outcome |-> [NoResult EXCEPT !.status = "raised", !.at = "open",
                              !.is_dark = is_dark, !.bg_color = bg_color]]
        ELSE IF ~saved
        THEN [fs |-> fs, outcome |-> [locals EXCEPT !.status = "raised", !.at = "save"]]
        ELSE [fs |-> (out_path :> output) @@ fs,
              outcome |-> [locals EXCEPT !.status = "returned"]]

---------------------------------------------------------------------------
(* process_screenshots (lines 194-233): helpers.                           *)

\* lang_dir.glob('*.png'): the pattern matches the names that end in ".png", those
\* that start with a dot included
GlobPng(fs, d) == {n \in Listing(fs, d) : EndsWith(n, s_png)}

\* Lines 215-218 without the check for 'background'
SkippedFramedOnly(name) == Contains(s_framed, name)

\* Lines 215-218: the names the loop passes over
Skipped(name) == Contains(s_framed, name) \/ Contains(s_background, Lower(name))

\* Lines 221-222 with the output written over the source
OutputPathInPlace(screenshot_file) == screenshot_file

\* Lines 221-222: output_path = parent / (stem + '_framed.png')
OutputPath(screenshot_file) ==
    Join(Parent(screenshot_file), Stem(PathName(screenshot_file)) \o s_framed_png)

\* Line 228 catching only what Image.open raises
CaughtOpenOnly(outcome) == outcome.at = "open"

\* Line 228: except Exception catches what Image.open and save raise (OSError and
\* its subclasses, Pillow's UnidentifiedImageError among them)
Caught(outcome) == outcome.at \in {"open", "save"}

\* Lines 236-243: the directory the script is given
ScreenshotsDir == <<"s", "c", "r", "e", "e", "n", "s", "h", "o", "t", "s">>

---------------------------------------------------------------------------
(* Bounds and inputs.                                                      *)

MaxWidth == 3     \* screenshots are 1..MaxWidth pixels wide
MaxHeight == 2    \* and 1..MaxHeight pixels high
MaxEntries == 2   \* entries of the screenshots directory
MaxFiles == 2     \* files in the language directories, all together
MaxRuns == 2      \* runs of process_screenshots over the same tree

\* The subsets of S of at most k elements
RECURSIVE SubsetsUpTo(_, _)
SubsetsUpTo(S, k) ==
    IF k = 0 THEN {{}}
    ELSE LET smaller == SubsetsUpTo(S, k - 1)
         IN  smaller \cup {T \cup {x} : T \in smaller, x \in S}

Lang_fr == <<"f", "r">>
Name_iPhone == <<"i", "P", "h", "o", "n", "e">>
Name_light == Name_iPhone \o <<"-">> \o Key_01_NearbyTab \o s_png
Name_dark == Name_iPhone \o <<"-">> \o Key_01_NearbyTab \o s_Dark \o s_png
Name_light_framed == Name_iPhone \o <<"-">> \o Key_01_NearbyTab \o s_framed_png
Name_background == s_background \o s_png
Name_Background == <<"B">> \o Tail(s_background) \o s_png
Name_dot_png == s_png
Name_dot_png_png == s_png \o s_png
Name_upper_ext == <<"s", "h", "o", "t", ".", "P", "N", "G">>

\* Entries of the screenshots directory: language directories (a language of the
\* table, and a name that is none and holds "_Dark") and a plain file.
DirNames == {Lang_en_US, Lang_ko \o s_Dark}
PlainEntries == {<<"R", "E", "A", "D", "M", "E">> \o s_png}
EntryKind(e) == IF e \in DirNames THEN "dir" ELSE "file"

\* What a language directory may hold: under a name the loop frames, a screenshot or
\* a file that is no image; under the name of an output, an image or a directory;
\* under the other names, an image.
BatchShot == Screenshot(1, 1)
BatchFiles ==
    ({Name_light} \X {BatchShot, Corrupt})
        \cup ({Name_light_framed} \X {BatchShot, Directory})
        \cup ({Name_dark, Name_dot_png, Name_dot_png_png, Name_background,
               Name_Background, Name_upper_ext} \X {BatchShot})

\* The file system with the files F (pairs <<path, content>> of distinct paths)
FsOf(F) == [p \in {f[1] : f \in F} |-> (CHOOSE f \in F : f[1] = p)[2]]

Trees(S) ==
    LET cand == {<<Join(Join(ScreenshotsDir, d), f[1]), f[2]>> :
                    d \in S \cap DirNames, f \in BatchFiles}
    IN  {FsOf(F) : F \in {G \in SubsetsUpTo(cand, MaxFiles) :
                            \A f, g \in G : f[1] = g[1] => f = g}}

---------------------------------------------------------------------------
(* SpecFrame: one call of frame_screenshot.                                *)

FrameNames == {Name_light, Name_dark, Name_dot_png,
               Name_iPhone \o <<"-", "9", "9", "_", "O", "t", "h", "e", "r">> \o s_png}
FrameDirs == {Lang_en_US, Lang_ko, Lang_fr, Lang_ko \o s_Dark}
FramePaths == {Join(Join(ScreenshotsDir, d), n) : d \in FrameDirs, n \in FrameNames}
FrameLangs == {Lang_en_US, Lang_ko, Lang_fr}
FrameInputs == {Screenshot(w, h) : w \in 1..MaxWidth, h \in 1..MaxHeight}
                   \cup {Screenshot(1320, 2868), Corrupt, Directory}

TitleIdle == filename = << >> /\ title = << >>

InitFrame ==
    /\ pc = "call"
    /\ input_path \in FramePaths
    /\ output_path = OutputPath(input_path)
    /\ language \in FrameLangs
    /\ \E c \in FrameInputs :
           \/ files = (input_path :> c)
           \/ \E o \in {BatchShot, Directory} : files = (input_path :> c) @@ (output_path :> o)
    /\ result = NoResult
    /\ TitleIdle
    /\ root = "dir" /\ entries = << >>
    /\ lang_todo = {} /\ lang_dir = << >> /\ png_todo = {}
    /\ processed = 0 /\ skipped = 0 /\ ret = "none" /\ run = 0 /\ calls = EmptyBag /\ written = {}

FrameScreenshot ==
    /\ pc = "call"
    /\ LET r == frame_screenshot(files, input_path, output_path, language)
       IN  /\ files' = r.fs
           /\ result' = r.outcome
           /\ pc' = r.outcome.status
    /\ UNCHANGED <<filename, language, title, input_path, output_path, root, entries,
                   lang_todo, lang_dir, png_todo, processed, skipped, ret, run, calls, written>>

NextFrame == FrameScreenshot

SpecFrame == InitFrame /\ [][NextFrame]_vars

---------------------------------------------------------------------------
(* Spec: runs of process_screenshots(ScreenshotsDir).                      *)

Init ==
    /\ pc = "idle"
    /\ root \in {"missing", "file", "dir"}
    /\ \E S \in SubsetsUpTo(DirNames \cup PlainEntries, MaxEntries) :
           /\ root # "dir" => S = {}
           /\ entries = [e \in S |-> EntryKind(e)]
           /\ files \in Trees(S)
    /\ lang_todo = {} /\ lang_dir = << >> /\ png_todo = {}
    /\ language = << >>
    /\ input_path = << >> /\ output_path = << >> /\ result = NoResult
    /\ processed = 0 /\ skipped = 0 /\ ret = "none" /\ run = 0 /\ calls = EmptyBag /\ written = {}
    /\ TitleIdle

batchOnly == <<filename, title>>

\* Lines 196-200: the directory does not exist
StartMissing ==
    /\ pc \in {"idle", "done"} /\ run < MaxRuns
    /\ root = "missing"
    /\ run' = run + 1
    /\ calls' = EmptyBag
    /\ ret' = "False"
    /\ pc' = "done"
    /\ UNCHANGED <<batchOnly, language, input_path, output_path, result, root, entries,
                   files, lang_todo, lang_dir, png_todo, processed, skipped, written>>

\* Lines 196-206 on a path that exists and is no directory: exists() is true, and
\* iterdir() raises NotADirectoryError, which nothing catches
StartNotADirectory ==
    /\ pc \in {"idle", "done"} /\ run < MaxRuns
    /\ root = "file"
    /\ run' = run + 1
    /\ processed' = 0 /\ skipped' = 0
    /\ calls' = EmptyBag
    /\ ret' = "raised"
    /\ pc' = "done"
    /\ UNCHANGED <<batchOnly, language, input_path, output_path, result, root, entries,
                   files, lang_todo, lang_dir, png_todo, written>>

\* Lines 196-206 on a directory: the counters are reset and iterdir() lists the entries
Start ==
    /\ pc \in {"idle", "done"} /\ run < MaxRuns
    /\ root = "dir"
    /\ run' = run + 1
    /\ processed' = 0 /\ skipped' = 0
    /\ lang_todo' = DOMAIN entries
    /\ calls' = EmptyBag
    /\ ret' = "none"
    /\ pc' = "langs"
    /\ UNCHANGED <<batchOnly, language, input_path, output_path, result, root, entries,
                   files, lang_dir, png_todo, written>>

\* Lines 206-208: an entry that is no directory is passed over
SkipEntry ==
    /\ pc = "langs"
    /\ \E e \in lang_todo :
           /\ entries[e] # "dir"
           /\ lang_todo' = lang_todo \ {e}
    /\ UNCHANGED <<batchOnly, pc, language, input_path, output_path, result, root,
                   entries, files, lang_dir, png_todo, processed, skipped, ret, run,
                   calls, written>>

\* Lines 206-214: the next language directory; glob lists its PNG files
EnterLangDir ==
    /\ pc = "langs"
    /\ \E e \in lang_todo :
           /\ entries[e] = "dir"
           /\ lang_todo' = lang_todo \ {e}
           /\ language' = e
           /\ lang_dir' = Join(ScreenshotsDir, e)
           /\ png_todo' = GlobPng(files, Join(ScreenshotsDir, e))
    /\ pc' = "pngs"
    /\ UNCHANGED <<batchOnly, input_path, output_path, result, root, entries, files,
                   processed, skipped, ret, run, calls, written>>

\* Lines 214-218: a file whose name holds '_framed' or 'background' is passed over
SkipFile ==
    /\ pc = "pngs"
    /\ \E n \in png_todo :
           /\ Skipped(n)
           /\ png_todo' = png_todo \ {n}
    /\ UNCHANGED <<batchOnly, pc, language, input_path, output_path, result, root,
                   entries, files, lang_todo, lang_dir, processed, skipped, ret, run,
                   calls, written>>

\* Lines 214-230: a file is framed; what frame_screenshot raises is caught and
\* counted.  Whether the scan of the directory, under way, yields a file created
\* during it is unspecified: both are possible.
FrameFile ==
    /\ pc = "pngs"
    /\ \E n \in png_todo :
           /\ ~Skipped(n)
           /\ \E r \in {frame_screenshot(files, Join(lang_dir, n),
                                          OutputPath(Join(lang_dir, n)), language)} :
              LET screenshot_file == Join(lang_dir, n)
                  out == OutputPath(screenshot_file)
                  ok == r.outcome.status = "returned"
                  escapes == ~ok /\ ~Caught(r.outcome)
                  fresh == {PathName(p) : p \in {q \in (DOMAIN r.fs) \ (DOMAIN files) :
                                Parent(q) = lang_dir /\ EndsWith(PathName(q), s_png)}}
              IN  /\ input_path' = screenshot_file
                  /\ output_path' = out
                  /\ result' = r.outcome
                  /\ files' = r.fs
                  /\ processed' = IF ok THEN processed + 1 ELSE processed
                  /\ skipped' = IF ~ok /\ ~escapes THEN skipped + 1 ELSE skipped
                  /\ ret' = IF escapes THEN "raised" ELSE ret
                  /\ pc' = IF escapes THEN "done" ELSE pc
                  /\ calls' = calls (+) SetToBag({[input_path |-> screenshot_file,
                                                   output_path |-> out,
                                                   language |-> language,
                                                   outcome |-> r.outcome,
                                                   created |-> ok /\ out \notin DOMAIN files]})
                  /\ written' = IF ok THEN written \cup {<<screenshot_file, out>>}
                                      ELSE written
                  /\ \E seen \in SUBSET fresh : png_todo' = (png_todo \ {n}) \cup seen
    /\ UNCHANGED <<batchOnly, language, root, entries, lang_todo, lang_dir, run>>

\* Line 214: the directory is exhausted
LeaveLangDir ==
    /\ pc = "pngs"
    /\ png_todo = {}
    /\ pc' = "langs"
    /\ UNCHANGED <<batchOnly, language, input_path, output_path, result, root, entries,
                   files, lang_todo, lang_dir, png_todo, processed, skipped, ret, run,
                   calls, written>>

\* Lines 232-233: every entry has been visited; the function returns and the locals
\* of its loops are gone (the counters are kept, as what the last line printed)
Finish ==
    /\ pc = "langs"
    /\ lang_todo = {}
    /\ ret' = "True"
    /\ pc' = "done"
    /\ language' = << >> /\ lang_dir' = << >>
    /\ input_path' = << >> /\ output_path' = << >> /\ result' = NoResult
    /\ UNCHANGED <<batchOnly, root, entries, files, lang_todo, png_todo, processed,
                   skipped, run, calls, written>>

Next ==
    \/ StartMissing
    \/ StartNotADirectory
    \/ Start
    \/ SkipEntry
    \/ EnterLangDir
    \/ SkipFile
    \/ FrameFile
    \/ LeaveLangDir
    \/ Finish

Spec == Init /\ [][Next]_vars

---------------------------------------------------------------------------
(* SpecTitle: one call of get_title_for_screenshot.                        *)

Keys13 == {Key_01_NearbyTab, Key_02_NearbyTabGrid, Key_03_ConnectedTab,
           Key_04_ConnectionView, Key_05_ChatView, Key_06_VoiceCallView,
           Key_07_LibraryTab, Key_08_Settings, Key_09_QuickConnect,
           Key_10_FileTransfer, Key_11_TransferHistory, Key_12_UserProfile,
           Key_13_GroupDetail}
Langs5 == {Lang_en_US, Lang_zh_Hant, Lang_zh_Hans, Lang_ja, Lang_ko}

\* Device names; the second holds a '-' of its own.
Devices == {<<"i", "P", "h", "o", "n", "e", " ", "1", "7", " ", "P", "r", "o", " ", "M", "a", "x">>,
            <<"i", "P", "a", "d", " ", "P", "r", "o", " ", "1", "3", "-", "i", "n", "c", "h">>}

\* What precedes the key in a file name: nothing, a device, a directory and a device.
TitlePrefixes ==
    {<< >>} \cup {d \o <<"-">> : d \in Devices}
            \cup {Join(Lang_en_US, d \o <<"-">>) : d \in Devices}

\* Keys: those of the table, and unknown ones (another key, a prefix of a key, a key
\* in lower case, none).
TitleKeys ==
    Keys13 \cup {<<"9", "9", "_", "O", "t", "h", "e", "r">>,
                 SubSeq(Key_01_NearbyTab, 1, 9),
                 Lower(Key_08_Settings),
                 << >>}

\* What follows the key: nothing, the dark suffix, the dark suffix twice, a suffix
\* that becomes "_Dark" once one "_Dark" is removed from it, "_dark", a trailing '-'.
TitleSuffixes ==
    {<< >>, s_Dark, s_Dark \o s_Dark,
     <<"_", "D">> \o s_Dark \o <<"a", "r", "k">>,
     Lower(s_Dark), <<"-">>}

TitleExts == {s_png, << >>, <<".", "P", "N", "G">>, <<".", "t", "a", "r">> \o s_png}

TitleNames ==
    {p \o k \o s \o e : p \in TitlePrefixes, k \in TitleKeys, s \in TitleSuffixes, e \in TitleExts}

\* Languages: those of the table, and directory names that are not languages of it.
TitleLangs ==
    Langs5 \cup {<<"f", "r">>, <<"e", "n">>, Lower(Lang_en_US), Lang_ja \o s_Dark}

InitTitle ==
    /\ pc = "call"
    /\ filename \in TitleNames
    /\ language \in TitleLangs
    /\ title = << >>
    /\ input_path = << >> /\ output_path = << >> /\ result = NoResult
    /\ root = "dir" /\ entries = << >> /\ files = << >>
    /\ lang_todo = {} /\ lang_dir = << >> /\ png_todo = {}
    /\ processed = 0 /\ skipped = 0 /\ ret = "none" /\ run = 0 /\ calls = EmptyBag /\ written = {}

GetTitle ==
    /\ pc = "call"
    /\ title' = get_title_for_screenshot(filename, language)
    /\ pc' = "returned"
    /\ UNCHANGED <<filename, language, input_path, output_path, result, root, entries,
                   files, lang_todo, lang_dir, png_todo, processed, skipped, ret, run,
                   calls, written>>

NextTitle == GetTitle

SpecTitle == InitTitle /\ [][NextTitle]_vars

---------------------------------------------------------------------------
(* The claims, in the words of the specification.                          *)

\* The part of s after its last '-', all of s when it holds none
LastSegment(s) == SubSeq(s, RFind(s, "-") + 2, Len(s))

\* The key the claims speak of: the last '-'-separated segment of the stem of the
\* file name, with '_Dark' removed
ClaimKey(name) == Replace(LastSegment(Stem(PathName(name))), s_Dark, << >>)

\* The title table the claims say is used for a language
ClaimTable(lang) == IF lang \in Langs5 THEN TITLES[lang] ELSE TITLES[Lang_en_US]

\* '<device>-<key>.png' and its dark variant '<device>-<key>_Dark.png'
LightFile(device, key) == device \o <<"-">> \o key \o s_png
DarkFile(device, key) == device \o <<"-">> \o key \o s_Dark \o s_png

\* C2: get_title_for_screenshot returns '' whenever the key extracted from the file
\* name is not a key of the title table used for the language, and that table's
\* entry when it is one; the call returns for every file name and every language.
C2_UnknownKeyGivesEmptyTitle ==
    pc = "returned" =>
        IF ClaimKey(filename) \in DOMAIN ClaimTable(language)
        THEN title = ClaimTable(language)[ClaimKey(filename)]
        ELSE title = << >>

\* C2's case: a file name whose key is not in the table has been looked up for a
\* language of the table.
C2_Witness ==
    /\ pc = "returned"
    /\ language = Lang_ja
    /\ ClaimKey(filename) # << >>
    /\ ClaimKey(filename) \notin Keys13
    /\ title = << >>

\* C6: the title table holds exactly 5 languages, each with the same 13 keys; for each
\* language and key, '<device>-<key>.png' and '<device>-<key>_Dark.png' both get a
\* non-empty title, and the same one.
C6_EveryKeyTitledLightAndDark ==
    /\ DOMAIN TITLES = Langs5 /\ Cardinality(Langs5) = 5 /\ Cardinality(Keys13) = 13
    /\ \A l \in Langs5 : DOMAIN TITLES[l] = Keys13
    /\ (pc = "returned" /\ language \in Langs5) =>
           \A d \in Devices, k \in Keys13 :
               filename \in {LightFile(d, k), DarkFile(d, k)} =>
                   /\ title # << >>
                   /\ title = get_title_for_screenshot(LightFile(d, k), language)
                   /\ title = get_title_for_screenshot(DarkFile(d, k), language)

\* C6's case: the dark variant of the last key has been looked up in Korean.
C6_Witness ==
    /\ pc = "returned"
    /\ language = Lang_ko
    /\ \E d \in Devices : filename = DarkFile(d, Key_13_GroupDetail)
    /\ title = TITLES[Lang_ko][Key_13_GroupDetail]

\* C7: for a language that is not in the title table the result is the one for
\* 'en-US'; for a language of the table only its own titles are used, so that an
\* unknown key gives '' and never the en-US title.
C7_UnknownLanguageUsesEnglish ==
    pc = "returned" =>
        /\ language \notin Langs5 =>
               title = DictGet(TITLES[Lang_en_US], ClaimKey(filename), << >>)
        /\ language \in Langs5 =>
               title = DictGet(TITLES[language], ClaimKey(filename), << >>)

\* C7's case: a key of the table has been looked up for the directory name 'fr'.
C7_Witness ==
    /\ pc = "returned"
    /\ language = Lang_fr
    /\ title = TITLES[Lang_en_US][Key_05_ChatView]

\* C1: the canvas frame_screenshot composes is the screenshot's width plus PADDING on
\* each side, 200 pixels in all, whatever the language, the theme and the title.
C1_CanvasWidth ==
    pc = "returned" =>
        /\ result.output_width = files[input_path].width + 200
        /\ files[output_path].width = files[input_path].width + 200
        /\ 2 * PADDING = 200

\* C1's case: a screenshot of 1320 pixels has been framed without a title.
C1_Witness ==
    /\ pc = "returned"
    /\ files[input_path].width = 1320
    /\ files[output_path].width = 1520
    /\ files[output_path].title = << >>

\* C9: the canvas is h + PADDING + T high, T being 232 (2 * TITLE_PADDING + FONT_SIZE)
\* when the title looked up is not empty and 0 otherwise; the screenshot is pasted at
\* (PADDING, T), so it lies inside the canvas with PADDING pixels of background on
\* its left, on its right and below it, and the band of height T above it.
C9_LayoutContainment ==
    pc = "returned" =>
        LET w == files[input_path].width
            h == files[input_path].height
            T == IF get_title_for_screenshot(input_path, language) # << >>
                 THEN 232 ELSE 0
            canvas == files[output_path]
            x == canvas.paste[1]
            y == canvas.paste[2]
        IN  /\ 2 * TITLE_PADDING + FONT_SIZE = 232
            /\ canvas.height = h + PADDING + T
            /\ canvas.paste = <<PADDING, T>>
            /\ result.screenshot_x = x /\ result.screenshot_y = y
            /\ 0 <= x /\ 0 <= y /\ x + w <= canvas.width /\ y + h <= canvas.height
            /\ x = PADDING
            /\ canvas.width - (x + w) = PADDING
            /\ canvas.height - (y + h) = PADDING
            /\ y = T

\* C9's case: a screenshot with a title has been framed, pasted below the band.
C9_Witness ==
    /\ pc = "returned"
    /\ result.title # << >>
    /\ files[output_path].paste = <<100, 232>>
    /\ files[output_path].height = files[input_path].height + 332

\* The files of the language directories that a run is to frame: the entries of a
\* directory of the screenshots directory whose name ends in ".png" and holds neither
\* '_framed' nor, in any case of the letters, 'background'.
Eligible ==
    {p \in DOMAIN files :
        /\ \E e \in DOMAIN entries : entries[e] = "dir" /\ Parent(p) = Join(ScreenshotsDir, e)
        /\ EndsWith(PathName(p), s_png)
        /\ ~Contains(s_framed, PathName(p))
        /\ ~Contains(s_background, Lower(PathName(p)))}

\* The number of calls of this run that satisfy P
CallsWhere(P(_)) ==
    BagCardinality([c \in {d \in BagToSet(calls) : P(d)} |-> calls[c]])

\* A name that holds "_framed" or "background"
NamedFramedOrBackground(name) == Contains(s_framed, name) \/ Contains(s_background, name)

\* C3: a file whose name holds "_framed" or "background" is skipped: frame_screenshot
\* is never called on it, and no output is derived from it.
C3_FramedAndBackgroundSkipped ==
    /\ \A c \in BagToSet(calls) : ~NamedFramedOrBackground(PathName(c.input_path))
    /\ \A w \in written : ~NamedFramedOrBackground(PathName(w[1]))
    /\ \A p \in DOMAIN files :
           files[p].from # << >> => ~NamedFramedOrBackground(PathName(files[p].from))

\* C3's case: a run over a directory that holds background.png has ended, other files
\* of that directory framed.
C3_Witness ==
    /\ pc = "done" /\ ret = "True"
    /\ \E p \in DOMAIN files :
           /\ PathName(p) = Name_background
           /\ \E c \in BagToSet(calls) : Parent(c.input_path) = Parent(p)

\* C4: what frame_screenshot raises for a file is caught and counted as skipped, and
\* the batch goes on: the counters count the calls that returned and those that
\* raised, and when the run ends every eligible file of every language directory
\* has been attempted exactly once, processed + skipped being their number.
C4_FailureDoesNotStopBatch ==
    LET Returned(c) == c.outcome.status = "returned"
        Raised(c) == c.outcome.status = "raised"
    IN  /\ root = "dir" => ret # "raised"
        /\ pc \in {"langs", "pngs", "done"} /\ root = "dir" =>
               /\ processed = CallsWhere(Returned)
               /\ skipped = CallsWhere(Raised)
        /\ pc = "done" /\ ret = "True" =>
               /\ \A c \in BagToSet(calls) : c.input_path \in Eligible
               /\ \A p \in Eligible :
                      LET OfP(c) == c.input_path = p IN CallsWhere(OfP) = 1
               /\ processed + skipped = Cardinality(Eligible)

\* C4's case: a run has ended in which one file raised and another was framed.
C4_Witness ==
    /\ pc = "done" /\ ret = "True"
    /\ processed = 1 /\ skipped = 1
    /\ \E c \in BagToSet(calls) : c.outcome.status = "raised"

\* C5: process_screenshots returns normally whatever the path: False, without framing
\* a file, when the path does not exist; True after a pass over the language
\* directories in every other case.
C5_AlwaysReturnsNormally ==
    pc = "done" =>
        /\ root = "missing" => ret = "False" /\ calls = EmptyBag
        /\ root # "missing" => ret = "True"

\* C8: the background of a framed file is the dark colour (28, 28, 30) exactly when
\* the name of the file holds '_Dark', and the light colour (0, 122, 255) otherwise,
\* whatever directory the file lies in.
C8_ThemeByFileName ==
    \A c \in BagToSet(calls) :
        c.outcome.status = "returned" =>
            c.outcome.bg_color =
                IF Contains(s_Dark, PathName(c.input_path))
                THEN <<28, 28, 30>> ELSE <<0, 122, 255>>

\* The output of a source: '<stem>_framed.png' next to it
ClaimOutput(p) == Parent(p) \o <<"/">> \o Stem(PathName(p)) \o s_framed \o s_png

\* What C10 says of the names: every output is '<stem>_framed.png' next to its
\* source, no output is ever taken as an input, and no source that is framed is
\* overwritten.
C10_OutputsApart ==
    /\ \A c \in BagToSet(calls) : c.output_path = ClaimOutput(c.input_path)
    /\ \A w \in written : w[2] = ClaimOutput(w[1])
    /\ \A c \in BagToSet(calls), w \in written : c.input_path # w[2]
    /\ \A v, w \in written : v[1] # w[2]
    /\ \A w \in written : files[w[1]].from = << >>

=============================================================================
